---- MODULE Spec2Model ----
(***************************************************************************)
(* State-machine model of the snake game loop in src/src/game.rs           *)
(* (Game::new, Game::run and its helpers).  Snake, Point, Direction and    *)
(* Command live in sibling modules of the crate; their operations are      *)
(* modelled from the design document (sections 4.1 and 4.2).               *)
(*                                                                         *)
(* Points are pairs <<x, y>>.  The absent food (Option::None) is <<>>.     *)
(* Readings of lines that do not compile as written:                       *)
(*   line 38  rand::thread_rand()        -> rand::thread_rng()             *)
(*   line 69  direction.opposite         -> direction.opposite()          *)
(*   line 87  score % (area/MAX == 0)    -> score % (area/MAX) == 0        *)
(*   line 134 KeyCode::('C')             -> KeyCode::Char('C')             *)
(*                                                                         *)
(* pc is the position in Game::run: "run" (in the place_food of line 51),  *)
(* "tick" (line 56), "poll" (line 61), "eat" (in the place_food of line    *)
(* 84), "tick_end" (line 97), "returned", and "panic" (an arithmetic       *)
(* fault).  A u16 overflow is a panic in a build with overflow checks and  *)
(* a wrap in one without: where one can happen both outcomes are steps.    *)
(* In the sessions that call one collision function on its own, pc is      *)
(* "call" before the call and "checked" once `result` holds its value.     *)
(***************************************************************************)
EXTENDS Integers, Sequences, FiniteSets, TLC

\* ---------------------------------------------------------------- constants
MAX_INTERVAL == 700
MIN_INTERVAL == 200
MAX_SPEED == 20

\* ------------------------------------------------------------------- bounds
\* Loop iterations of the inner `while now.elapsed() < interval` per tick.
MaxPolls == 2
\* Iterations of the outer `while !done` loop.
MaxTicks == 2

\* Board sizes (width, height) handed to Game::new: the smallest board that
\* holds the initial snake for every heading, and boards smaller than that.
Boards == {<<5, 5>>}
SmallBoards == {<<2, 2>>, <<1, 1>>}

U16(n) == n % 65536

None == <<>>

Directions == {"Up", "Right", "Down", "Left"}

\* ------------------------------------------------- Direction, Point, Snake
Opposite(d) ==
    CASE d = "Up" -> "Down"
      [] d = "Down" -> "Up"
      [] d = "Left" -> "Right"
      [] d = "Right" -> "Left"

\* Coordinates are u16 (Point::new takes width / 2 and height / 2): a
\* translation below 0 or above 65535 overflows, which is a panic in a build
\* with overflow checks and a wrap in one without.
TransformOverflows(p, d, n) ==
    CASE d = "Up" -> p[2] - n < 0
      [] d = "Down" -> p[2] + n > 65535
      [] d = "Left" -> p[1] - n < 0
      [] d = "Right" -> p[1] + n > 65535

Transform(p, d, n) ==
    CASE d = "Up" -> <<p[1], U16(p[2] - n)>>
      [] d = "Down" -> <<p[1], U16(p[2] + n)>>
      [] d = "Left" -> <<U16(p[1] - n), p[2]>>
      [] d = "Right" -> <<U16(p[1] + n), p[2]>>

SnakeNew(head, length, d) ==
    [i \in 1..length |-> Transform(head, Opposite(d), i - 1)]

Slither(b, d) ==
    <<Transform(b[1], d, 1)>> \o SubSeq(b, 1, Len(b) - 1)

Grow(b, d) ==
    <<Transform(b[1], d, 1)>> \o b

ContainsPoint(b, p) == \E i \in 1..Len(b) : b[i] = p

\* place_food, line 107: the drawn cell is kept when it is off the snake.
AcceptsHeadOnly(b, point) == point # b[1]

AcceptsOffTail(b, point) == ~ContainsPoint(SubSeq(b, 1, Len(b) - 1), point)

Accepts(b, point) == ~ContainsPoint(b, point)

\* ------------------------------------------------------------------- state
VARIABLES width, height, food, body, heading, speed, score,
          done, direction, interval, pc, polls, ticks, steps, reports, result

vars == <<width, height, food, body, heading, speed, score,
          done, direction, interval, pc, polls, ticks, steps, reports, result>>

\* ------------------------------------------------------------- key events
KeyCodes == {"Up", "Right", "Down", "Left", "q", "Q", "Esc", "c", "C", "x"}
KeyModifiers == {"NONE", "CONTROL"}
KeyEvents == [code : KeyCodes, modifiers : KeyModifiers]

\* What one poll can deliver: no event before the timeout, an event that is
\* not a key event, or a key event.
NoEvent == [code |-> "timeout", modifiers |-> "NONE"]
OtherEvent == [code |-> "resize", modifiers |-> "NONE"]
PollResults == {NoEvent, OtherEvent} \cup KeyEvents

NoCommand == [kind |-> "None", towards |-> "-"]
Quit == [kind |-> "Quit", towards |-> "-"]
Turn(d) == [kind |-> "Turn", towards |-> d]

WaitForKeyEvent(ev) == IF ev \in KeyEvents THEN ev ELSE NoEvent

\* get_command with the Esc key left out of the quit arm of line 133.
GetCommandWithoutEsc(ev) ==
    LET key_event == WaitForKeyEvent(ev) IN
    IF key_event = NoEvent THEN NoCommand
    ELSE CASE key_event.code \in {"q", "Q"} -> Quit
           [] key_event.code \in {"c", "C"} ->
                IF key_event.modifiers = "CONTROL" THEN Quit ELSE NoCommand
           [] key_event.code = "Up" -> Turn("Up")
           [] key_event.code = "Right" -> Turn("Right")
           [] key_event.code = "Down" -> Turn("Down")
           [] OTHER -> NoCommand

GetCommand(ev) ==
    LET key_event == WaitForKeyEvent(ev) IN
    IF key_event = NoEvent THEN NoCommand
    ELSE CASE key_event.code \in {"q", "Q", "Esc"} -> Quit
           [] key_event.code \in {"c", "C"} ->
                IF key_event.modifiers = "CONTROL" THEN Quit ELSE NoCommand
           [] key_event.code = "Up" -> Turn("Up")
           [] key_event.code = "Right" -> Turn("Right")
           [] key_event.code = "Down" -> Turn("Down")
           [] OTHER -> NoCommand

\* ------------------------------------------------------------- collisions
\* has_collided_with_wall with `>` for the `>=` of line 164.
HasCollidedWithWallLate(b, d, w, h) ==
    LET head_point == b[1] IN
    CASE d = "Up" -> head_point[2] <= 0
      [] d = "Right" -> head_point[1] > w - 1
      [] d = "Down" -> head_point[2] >= h - 1
      [] d = "Left" -> head_point[1] <= 0

HasCollidedWithWall(b, d, w, h) ==
    LET head_point == b[1] IN
    CASE d = "Up" -> head_point[2] <= 0
      [] d = "Right" -> head_point[1] >= w - 1
      [] d = "Down" -> head_point[2] >= h - 1
      [] d = "Left" -> head_point[1] <= 0

\* has_bitten_itself without the remove of line 174: the tail is kept.
HasBittenItselfKeepsTail(b, d) ==
    LET next_head_point == Transform(b[1], d, 1)
        next_body_points == SubSeq(b, 2, Len(b))
    IN ContainsPoint(next_body_points, next_head_point)

HasBittenItself(b, d) ==
    LET next_head_point == Transform(b[1], d, 1)
        next_body_points == SubSeq(b, 2, Len(b) - 1)
    IN ContainsPoint(next_body_points, next_head_point)

\* ------------------------------------------------------------------ speed
\* calculate_interval in u16 arithmetic; MAX_SPEED - speed overflows when
\* speed > MAX_SPEED (a panic with overflow checks, a wrap without).
IntervalOverflows(s) ==
    \/ MAX_SPEED - s < 0
    \/ ((MAX_INTERVAL - MIN_INTERVAL) \div MAX_SPEED) * U16(MAX_SPEED - s) > 65535
    \/ MIN_INTERVAL
         + U16(((MAX_INTERVAL - MIN_INTERVAL) \div MAX_SPEED) * U16(MAX_SPEED - s))
       > 65535

CalculateInterval(s) ==
    U16(MIN_INTERVAL
        + U16(((MAX_INTERVAL - MIN_INTERVAL) \div MAX_SPEED) * U16(MAX_SPEED - s)))

\* The divisor of line 87.
Threshold(w, h) == U16(w * h) \div MAX_SPEED

\* ------------------------------------------------------------------- Init
\* The state Game::new returns, for a board and the heading it draws.
New(b, d) ==
    /\ width = b[1]
    /\ height = b[2]
    /\ food = None
    /\ body = SnakeNew(<<b[1] \div 2, b[2] \div 2>>, 3, d)
    /\ heading = d
    /\ speed = 0
    /\ score = 0
    /\ done = FALSE
    /\ direction = d
    /\ interval = 0
    /\ pc = "run"
    /\ polls = 0
    /\ ticks = 0
    /\ steps = 0
    /\ reports = 0
    /\ result = FALSE

Init == \E b \in Boards, d \in Directions : New(b, d)

InitAnyBoard == \E b \in Boards \cup SmallBoards, d \in Directions : New(b, d)

\* ------------------------------------------------------------- place_food
Cells == {<<x, y>> : x \in 0..(width - 1), y \in 0..(height - 1)}

FreeCells == {p \in Cells : Accepts(body, p)}

\* One iteration of the loop of place_food that draws a cell on the snake.
PlaceFoodRetry ==
    /\ pc \in {"run", "eat"}
    /\ \E point \in Cells : ~Accepts(body, point)
    /\ UNCHANGED vars

\* After the inner-loop body: is `now.elapsed() < interval` still true?
AfterStep(more) == IF more THEN "poll" ELSE "tick_end"

\* run, lines 51-55: the iteration of place_food that draws the free cell
\* `point`, then prepare_ui, render and `done = false`.  `sample` is the set
\* of cells the random source can deliver.
RunStart(sample) ==
    /\ pc = "run"
    /\ \E point \in sample :
        /\ point \in Cells
        /\ Accepts(body, point)
        /\ food' = point
    /\ done' = FALSE
    /\ pc' = "tick"
    /\ UNCHANGED <<result, width, height, body, heading, speed, score, direction,
                   interval, polls, ticks, steps, reports>>

\* Consume with `self.score += 2` for the `self.score += 1` of line 85.
ConsumeScoresTwo(sample, more) ==
    /\ pc = "eat"
    /\ more => polls < MaxPolls
    /\ \E point \in sample :
        /\ point \in Cells
        /\ Accepts(body, point)
        /\ food' = point
    /\ score' = U16(score + 2)
    /\ IF Threshold(width, height) = 0
       THEN /\ pc' = "panic"
            /\ speed' = speed
       ELSE /\ speed' = IF score' % Threshold(width, height) = 0
                        THEN U16(speed + 1) ELSE speed
            /\ pc' = AfterStep(more)
    /\ UNCHANGED <<result, width, height, body, heading, done, direction, interval,
                   polls, ticks, steps, reports>>

\* run, lines 84-93: the iteration of place_food that draws the free cell
\* `point` after a consumption, then the score and speed update and render.
Consume(sample, more) ==
    /\ pc = "eat"
    /\ more => polls < MaxPolls
    /\ \E point \in sample :
        /\ point \in Cells
        /\ Accepts(body, point)
        /\ food' = point
    /\ score' = U16(score + 1)
    /\ IF Threshold(width, height) = 0
       THEN /\ pc' = "panic"
            /\ speed' = speed
       ELSE /\ speed' = IF score' % Threshold(width, height) = 0
                        THEN U16(speed + 1) ELSE speed
            /\ pc' = AfterStep(more)
    /\ UNCHANGED <<result, width, height, body, heading, done, direction, interval,
                   polls, ticks, steps, reports>>

\* run, line 56 with done set: the loop ends and run returns.
Return ==
    /\ pc = "tick"
    /\ done
    /\ pc' = "returned"
    /\ UNCHANGED <<result, width, height, food, body, heading, speed, score, done,
                   direction, interval, polls, ticks, steps, reports>>

\* run, lines 56-59: loop test, calculate_interval, the heading snapshot.
BeginTick ==
    /\ pc = "tick"
    /\ ~done
    /\ \/ /\ IntervalOverflows(speed)
          /\ pc' = "panic"
          /\ UNCHANGED <<interval, direction, polls, ticks, steps>>
       \/ /\ interval' = CalculateInterval(speed)
          /\ direction' = heading
          /\ polls' = 0
          /\ steps' = 0
          /\ ticks' = ticks + 1
          /\ pc' = "poll"
    /\ UNCHANGED <<result, width, height, food, body, heading, speed, score, done,
                   reports>>

\* run, lines 61-94: one iteration of the inner loop, up to the call of
\* place_food when the food is reached.  `steps` counts the executions of the
\* movement step (lines 79-93) in the current tick.  The grow of line 83
\* translates the head once more, with no collision check before it: below 0
\* that is a u16 overflow, a panic or a wrap.
Poll(ev, more) ==
    /\ pc = "poll"
    /\ ev = NoEvent => ~more
    /\ more => polls + 1 < MaxPolls
    /\ polls' = polls + 1
    /\ LET command == GetCommand(ev) IN
       IF command = Quit
       THEN /\ done' = TRUE
            /\ pc' = "tick_end"
            /\ UNCHANGED <<heading, body, steps>>
       ELSE LET h == IF /\ command.kind = "Turn"
                        /\ direction # command.towards
                        /\ Opposite(direction) # command.towards
                     THEN command.towards ELSE heading
            IN /\ heading' = h
               /\ IF \/ HasCollidedWithWall(body, h, width, height)
                     \/ HasBittenItself(body, h)
                  THEN /\ done' = TRUE
                       /\ pc' = AfterStep(more)
                       /\ UNCHANGED <<body, steps>>
                  ELSE /\ done' = done
                       /\ IF food # None /\ Slither(body, h)[1] = food
                          THEN \/ /\ body' = Grow(Slither(body, h), h)
                                  /\ steps' = steps + 1
                                  /\ pc' = "eat"
                               \/ /\ TransformOverflows(food, h, 1)
                                  /\ body' = Slither(body, h)
                                  /\ steps' = steps + 1
                                  /\ pc' = "panic"
                          ELSE /\ body' = Slither(body, h)
                               /\ steps' = steps + 1
                               /\ pc' = AfterStep(more)
    /\ UNCHANGED <<result, width, height, food, speed, score, direction, interval,
                   ticks, reports>>

\* run, lines 97-99: restore_ui, the score line, back to `while !done`.
EndTick ==
    /\ pc = "tick_end"
    /\ reports' = reports + 1
    /\ pc' = "tick"
    /\ UNCHANGED <<result, width, height, food, body, heading, speed, score, done,
                   direction, interval, polls, ticks, steps>>

Next ==
    \/ RunStart(Cells)
    \/ PlaceFoodRetry
    \/ \E more \in BOOLEAN : Consume(Cells, more)
    \/ Return
    \/ ticks < MaxTicks /\ BeginTick
    \/ \E ev \in PollResults, more \in BOOLEAN : Poll(ev, more)
    \/ EndTick

Spec == Init /\ [][Next]_vars

\* ------------------------------------------------------------------ feast
\* A session on a 19 x 2 board in which the random source is a stub that
\* delivers a fixed sequence of cells, one per call of place_food, and in
\* which each tick sees one poll.  The keys stay free.
FeastBoards == {<<19, 2>>}

\* Iterations of the outer loop in a feast session.
FeastTicks == 30

FeastFood ==
    << <<7, 1>>, <<5, 1>>, <<3, 1>>, <<1, 1>>, <<1, 0>>, <<3, 0>>,
       <<4, 1>>, <<5, 1>>, <<6, 0>>, <<7, 1>>, <<8, 1>>, <<9, 0>>,
       <<10, 1>>, <<11, 1>>, <<12, 0>>, <<13, 1>>, <<14, 1>>, <<15, 0>>,
       <<16, 1>>, <<17, 1>>, <<18, 0>>, <<18, 1>> >>

\* The calls of place_food completed so far.
FeastCalls == IF food = None THEN 0 ELSE score + 1

FeastCells ==
    IF FeastCalls < Len(FeastFood) THEN {FeastFood[FeastCalls + 1]}
    ELSE FreeCells

FeastKeys == {NoEvent} \cup {k \in KeyEvents : k.modifiers = "NONE"
                                /\ k.code \in {"Up", "Right", "Down"}}

InitFeast == \E b \in FeastBoards, d \in Directions : New(b, d)

NextFeast ==
    \/ RunStart(FeastCells)
    \/ Consume(FeastCells, FALSE)
    \/ Return
    \/ ticks < FeastTicks /\ BeginTick
    \/ \E ev \in FeastKeys : Poll(ev, FALSE)
    \/ EndTick

SpecFeast == InitFeast /\ [][NextFeast]_vars

\* --------------------------------------------------------------- fairness
\* Fair random sampling: a draw of place_food that can land on a free cell
\* eventually does.  Sessions on every board, the small ones included.
SpecFair ==
    /\ InitAnyBoard
    /\ [][Next]_vars
    /\ WF_vars(RunStart(Cells))
    /\ WF_vars(\E more \in BOOLEAN : Consume(Cells, more))

\* ----------------------------------------------------------- narrow board
\* Sessions on a board of fewer than MAX_SPEED cells.
NarrowBoards == {<<9, 2>>}

InitNarrow == \E b \in NarrowBoards, d \in Directions : New(b, d)

SpecNarrow == InitNarrow /\ [][Next]_vars

\* ------------------------------------------------------------------- coil
\* A session on a 16 x 4 board with the same stub of the random source as
\* the feast, delivering the cells of CoilFood, and one poll per tick.
CoilBoards == {<<16, 4>>}

\* Iterations of the outer loop in a coil session.
CoilTicks == 8

CoilFood == << <<7, 2>>, <<5, 2>>, <<3, 2>>, <<3, 1>> >>

CoilCells ==
    IF FeastCalls < Len(CoilFood) THEN {CoilFood[FeastCalls + 1]}
    ELSE FreeCells

InitCoil == \E b \in CoilBoards, d \in Directions : New(b, d)

NextCoil ==
    \/ RunStart(CoilCells)
    \/ Consume(CoilCells, FALSE)
    \/ Return
    \/ ticks < CoilTicks /\ BeginTick
    \/ \E ev \in FeastKeys : Poll(ev, FALSE)
    \/ EndTick

SpecCoil == InitCoil /\ [][NextCoil]_vars

\* ------------------------------------------------------------ quiet session
\* A session on a 10 x 10 board whose drawn heading is Right and in which
\* every poll times out with no key: one poll per tick.
QuietBoard == <<10, 10>>

\* Iterations of the outer loop in a quiet session.
QuietTicks == 6

InitQuiet == New(QuietBoard, "Right")

NextQuiet ==
    \/ RunStart(Cells)
    \/ PlaceFoodRetry
    \/ Consume(Cells, FALSE)
    \/ Return
    \/ ticks < QuietTicks /\ BeginTick
    \/ Poll(NoEvent, FALSE)
    \/ EndTick

SpecQuiet == InitQuiet /\ [][NextQuiet]_vars

\* ---------------------------------------------------- collision functions
\* Calls of has_collided_with_wall and has_bitten_itself on their own, on a
\* Game whose fields are drawn from bounded sets; `result` holds what the
\* call returned once pc is "checked".

\* Largest board side of the wall sessions.
MaxSide == 4

\* The fields of a Game outside a run.
Idle ==
    /\ food = None
    /\ speed = 0
    /\ score = 0
    /\ done = FALSE
    /\ interval = 0
    /\ pc = "call"
    /\ polls = 0
    /\ ticks = 0
    /\ steps = 0
    /\ reports = 0
    /\ result = FALSE

\* Every board of side 1..MaxSide, every head on it, every heading.
InitWall ==
    /\ width \in 1..MaxSide
    /\ height \in 1..MaxSide
    /\ heading \in Directions
    /\ direction = heading
    /\ \E head \in Cells : body = SnakeNew(head, 3, heading)
    /\ Idle

CheckWall ==
    /\ pc = "call"
    /\ result' = HasCollidedWithWall(body, heading, width, height)
    /\ pc' = "checked"
    /\ UNCHANGED <<width, height, food, body, heading, speed, score, done,
                   direction, interval, polls, ticks, steps, reports>>

SpecWall == InitWall /\ [][CheckWall]_vars

\* Longest body of the bite sessions, and the side of the board they lie on.
MaxLen == 5
BiteSide == 3

BitePoints == {<<x, y>> : x \in 0..(BiteSide - 1), y \in 0..(BiteSide - 1)}

\* Consecutive body points are one cell apart.
Adjacent(p, q) ==
    \/ p[1] = q[1] /\ (p[2] = q[2] + 1 \/ q[2] = p[2] + 1)
    \/ p[2] = q[2] /\ (p[1] = q[1] + 1 \/ q[1] = p[1] + 1)

\* The bodies of n points: each point one cell from the one before it.
RECURSIVE Walks(_)
Walks(n) ==
    IF n = 1 THEN {<<p>> : p \in BitePoints}
    ELSE UNION {{Append(b, q) : q \in {r \in BitePoints : Adjacent(b[n - 1], r)}} :
                b \in Walks(n - 1)}

BiteBodies == UNION {Walks(n) : n \in 3..MaxLen}

\* Every body of 3..MaxLen points on the board, every heading.
InitBite ==
    /\ width = BiteSide
    /\ height = BiteSide
    /\ heading \in Directions
    /\ direction = heading
    /\ body \in BiteBodies
    /\ Idle

\* The transform of line 172 leaves the u16 range when the head is on row or
\* column 0 and the heading points off the board.
CheckBite ==
    /\ pc = "call"
    /\ \/ /\ result' = HasBittenItself(body, heading)
          /\ pc' = "checked"
       \/ /\ TransformOverflows(body[1], heading, 1)
          /\ pc' = "panic"
          /\ result' = result
    /\ UNCHANGED <<width, height, food, body, heading, speed, score, done,
                   direction, interval, polls, ticks, steps, reports>>

SpecBite == InitBite /\ [][CheckBite]_vars

\* ----------------------------------------------------------------- claims
InPlaceFood == pc \in {"run", "eat"}

InBoard(p) == p \in Cells

\* The board holds the length-3 snake of Game::new for every heading.
InitialSnakeFits ==
    \A d \in Directions : \A i \in 1..3 :
        /\ ~TransformOverflows(<<width \div 2, height \div 2>>, Opposite(d), i - 1)
        /\ InBoard(SnakeNew(<<width \div 2, height \div 2>>, 3, d)[i])

\* C1: once a collision check has set done, no later step changes the snake
\* body, the food, the score or the speed.
C1_GameOverAbsorbing ==
    [][done => UNCHANGED <<body, food, score, speed>>]_vars

\* C2: a movement step that reaches the food leaves the head on the old food
\* cell and the body one longer with every prior point kept in order, and the
\* consumption adds exactly 1 to the score.
C2_ConsumeIsOneStep ==
    [][/\ (pc = "poll" /\ pc' = "eat")
            => /\ body'[1] = food
               /\ Len(body') = Len(body) + 1
               /\ SubSeq(body', 2, Len(body')) = body
       /\ (pc = "eat" /\ pc' # "eat") => score' = score + 1]_vars

\* C3: on a board that holds the initial snake, every body point is inside
\* the board in every reachable state.
C3_BodyInsideBoard ==
    InitialSnakeFits => \A i \in 1..Len(body) : InBoard(body[i])

\* C4: set_direction is never called with the opposite of the heading the
\* snake has at that moment.
C4_NoReversal == [][heading' # Opposite(heading)]_vars

\* C5: while Running, a poll that returns a directional key that is neither
\* the heading nor its opposite makes that direction the heading.
C5_PerpendicularTurnAccepted ==
    [][\A ev \in KeyEvents, more \in BOOLEAN :
          (/\ ~done
           /\ ev.code \in Directions \ {heading, Opposite(heading)}
           /\ Poll(ev, more))
          => heading' = ev.code]_vars

\* C6: within one tick the movement step is executed at most once.
C6_OneStepPerTick == steps <= 1

\* C7: right after every completed call of place_food the food is a cell of
\* the board that is on no point of the snake body.
C7_FoodPlacedOffSnake ==
    [][(InPlaceFood /\ ~InPlaceFood')
          => /\ food' # None
             /\ InBoard(food')
             /\ ~ContainsPoint(body', food')]_vars

\* C7 witness: the first consumption has placed a new food beside a snake of
\* length 4.
C7_Witness ==
    /\ score = 1
    /\ pc = "tick_end"
    /\ Len(body) = 4
    /\ InBoard(food)
    /\ ~ContainsPoint(body, food)

\* C8: every call of place_food eventually returns, also when the snake
\* covers every cell of the board.
C8_PlaceFoodTerminates == InPlaceFood ~> ~InPlaceFood

\* C9: on a board of at least MAX_SPEED cells the speed stays within
\* 0..MAX_SPEED and no step decreases it.
C9_SpeedBoundedMonotone ==
    /\ [](width * height >= MAX_SPEED => speed \in 0..MAX_SPEED)
    /\ [][speed' >= speed]_vars

\* C10: a consumption raises the speed by exactly 1 when the new score is a
\* multiple of the threshold and leaves it alone otherwise; the interval of
\* the new level is computed, follows the formula and is strictly shorter
\* than that of the previous level, from MAX_INTERVAL at level 0 down to
\* MIN_INTERVAL at MAX_SPEED.
C10_SpeedProgression ==
    /\ [][/\ (pc = "eat" /\ pc' \notin {"eat", "panic"})
               => speed' = IF score' % Threshold(width, height) = 0
                           THEN speed + 1 ELSE speed
          /\ (pc # "eat") => (speed' = speed)
          /\ (speed' = speed + 1)
               => /\ ~IntervalOverflows(speed')
                  /\ CalculateInterval(speed') < CalculateInterval(speed)
                  /\ CalculateInterval(speed')
                       = MIN_INTERVAL
                         + ((MAX_INTERVAL - MIN_INTERVAL) \div MAX_SPEED)
                           * (MAX_SPEED - speed')]_vars
    /\ [](/\ CalculateInterval(0) = MAX_INTERVAL
          /\ CalculateInterval(MAX_SPEED) = MIN_INTERVAL)

\* The quit keys: q, Q, Esc, and c or C with the control modifier.
IsQuitKey(ev) ==
    \/ ev.code \in {"q", "Q", "Esc"}
    \/ ev.code \in {"c", "C"} /\ ev.modifiers = "CONTROL"

QuitKeys == {ev \in KeyEvents : IsQuitKey(ev)}

\* C11: a poll that returns a quit key while the game is Running makes the
\* session done and ends the tick's loop with the body, the heading, the
\* food, the score and the speed untouched (a step from a Running poll has
\* that effect or is not the poll of a quit key); from there the only steps
\* are the end of the tick and the return of run, which touch none of them.
C11_QuitCancelsTick ==
    [][/\ (pc = "poll" /\ ~done)
            => \/ /\ done'
                  /\ pc' = "tick_end"
                  /\ UNCHANGED <<body, heading, food, score, speed>>
               \/ \A ev \in QuitKeys, more \in BOOLEAN : ~Poll(ev, more)
       /\ (done /\ pc = "tick_end")
            => /\ pc' = "tick"
               /\ UNCHANGED <<done, body, heading, food, score, speed>>
       /\ (done /\ pc = "tick")
            => /\ pc' = "returned"
               /\ UNCHANGED <<done, body, heading, food, score, speed>>]_vars

\* C11 witness: the first tick was ended by a quit key after one movement
\* step, with no collision ahead of the snake.
C11_Witness ==
    /\ done
    /\ pc = "returned"
    /\ ticks = 1
    /\ polls = 2
    /\ steps = 1
    /\ ~HasCollidedWithWall(body, heading, width, height)
    /\ ~HasBittenItself(body, heading)

\* C12: restore_ui and the score line are executed only once the game is
\* over, never after a tick that ended while still Running, and exactly once
\* in a run.
C12_ReportOnceAtGameOver ==
    /\ reports > 0 => done
    /\ reports <= 1
    /\ pc = "returned" => reports = 1

\* The cell one step from p towards d, in unbounded integers.
Translate(p, d) ==
    CASE d = "Up" -> <<p[1], p[2] - 1>>
      [] d = "Down" -> <<p[1], p[2] + 1>>
      [] d = "Left" -> <<p[1] - 1, p[2]>>
      [] d = "Right" -> <<p[1] + 1, p[2]>>

\* C13: for a head inside a board of any width and height >= 1 and any
\* heading, has_collided_with_wall returns true exactly when the cell one
\* step ahead of the head is outside the board.
C13_WallCollisionBoundary ==
    pc = "checked" => (result <=> ~InBoard(Translate(body[1], heading)))

\* C13 witness: heading Right with the head on the last column of a board
\* at least two cells wide was checked and reported as collided.
C13_Witness ==
    /\ pc = "checked"
    /\ heading = "Right"
    /\ width >= 2
    /\ body[1][1] = width - 1
    /\ result

\* C14: for a body of at least 3 points and any heading, has_bitten_itself
\* returns true exactly when the cell one step ahead of the head is a body
\* point other than the first (the head) and the last (the tail).
C14_SelfCollisionBoundary ==
    pc = "checked"
    => (result <=> \E i \in 2..(Len(body) - 1) :
                      body[i] = Translate(body[1], heading))

\* C14 witness: a snake of at least 4 points whose next head cell is its
\* current tail cell and no other body point was checked: not a collision.
C14_Witness ==
    /\ pc = "checked"
    /\ Len(body) >= 4
    /\ body[Len(body)] = Translate(body[1], heading)
    /\ \A i \in 2..(Len(body) - 1) : body[i] # body[Len(body)]
    /\ ~result

\* C15: on the 10 x 10 board with the initial snake headed Right from
\* (5,5), whatever the first food cell, three ticks without a key leave the
\* head on (8,5), and the game is not over during them.
C15_ThreeQuietTicks ==
    /\ (ticks = 3 /\ pc \in {"tick_end", "tick"}) => body[1] = <<8, 5>>
    /\ ticks <= 3 => ~done

\* C16: the points of the snake body are pairwise distinct in every
\* reachable state.
C16_BodyPointsDistinct ==
    \A i, j \in 1..Len(body) : i # j => body[i] # body[j]

\* C17: when both collision checks return false and slither is executed,
\* the head after that slither is inside the board and differs from every
\* body point the slither retains.
C17_SlitherLandsOnFreeCell ==
    [][(pc = "poll" /\ steps' = steps + 1)
          => LET slithered == Slither(body, heading') IN
             /\ InBoard(slithered[1])
             /\ \A i \in 2..Len(slithered) : slithered[i] # slithered[1]]_vars

\* C18: on a board of any size the score and speed update of a consumption
\* completes without an arithmetic fault: the divisor of the modulo on the
\* score is not zero and width * height fits in 16 bits.
C18_ConsumptionIsTotal ==
    [][(pc = "eat" /\ pc' # "eat")
          => /\ pc' # "panic"
             /\ width * height <= 65535
             /\ Threshold(width, height) # 0]_vars

\* C19: the score never decreases and changes only in a consumption, which
\* adds exactly 1 to it; outside the consumption step the body length is the
\* initial length 3 plus the score.
C19_ScoreAndLength ==
    /\ [](pc # "eat" => Len(body) = 3 + score)
    /\ [][/\ score' >= score
          /\ score' # score => (pc = "eat" /\ score' = score + 1)
          /\ (pc = "eat" /\ pc' # "eat") => score' = score + 1]_vars

\* C19 witness: after the third consumption the snake has 6 points.
C19_Witness ==
    /\ pc = "tick_end"
    /\ score = 3
    /\ Len(body) = 6
    /\ steps = 1

\* C20: while the game is Running and no movement step is under way, the
\* food is present and on no point of the snake body.
C20_FoodOffSnakeBetweenSteps ==
    (~done /\ pc \in {"tick", "poll", "tick_end"})
    => /\ food # None
       /\ \A i \in 1..Len(body) : body[i] # food

\* C20 witness: a movement step without a consumption has moved the snake
\* and the food placed at the start is still off it.
C20_Witness ==
    /\ ~done
    /\ pc = "tick_end"
    /\ steps = 2
    /\ score = 0
    /\ food # None
    /\ \A i \in 1..Len(body) : body[i] # food

====
